---- MODULE Spec2Model ----
(***************************************************************************)
(* A model of dialogflow-cx/vpc-sc-demo/backend/update_blueprint.py: the   *)
(* five Flask endpoints that read a remote setting, compare it with the    *)
(* desired boolean of the request body and, when they differ, write it.    *)
(*                                                                         *)
(* Python values are modelled by what the code can observe of them:        *)
(*   - a str is a sequence of one-character strings, so that iterating a   *)
(*     str, `x in str` (substring) and `x in list` (membership) differ;    *)
(*   - an optional dict key is a flag next to the value (hasBindings,      *)
(*     hasMembers) or a tag (restrictedServices: absent, list or str);     *)
(*   - an uncaught Python exception ends the invocation in pc = "raised".  *)
(*                                                                         *)
(* A request is its token, its JSON body and whether project_id is given;  *)
(* the other query parameters (region, webhook_name, access_policy_title,  *)
(* bucket) are taken to be there. Each control-plane call is one step, and *)
(* the code that runs between two calls belongs to the step of the first.  *)
(***************************************************************************)
EXTENDS Naturals, Sequences, FiniteSets

\* ------------------------------------------------------------------ bounds

\* The longest bindings list of an initial IAM policy.
MaxBindings == 2
\* The longest restrictedServices list of an initial perimeter status.
MaxServices == 2
\* The same two lengths where all five endpoints are checked together.
SmallBindings == 1
SmallServices == 1
\* The most calls of the perimeter evaluator on one status.
MaxCalls == 2

\* ------------------------------------------------------------- IAM policies

INVOKER == "roles/cloudfunctions.invoker"
Roles == {INVOKER, "roles/viewer"}
ALL_USERS == "allUsers"
Members == {ALL_USERS, "user:a"}

\* The elements of a sequence.
Range(s) == {s[i] : i \in 1..Len(s)}

\* The duplicate-free lists over S of length at most n.
Lists(S, n) == {s \in UNION {[1..k -> S] : k \in 0..n} : Cardinality(Range(s)) = Len(s)}

\* A binding: 'role' is always there, 'members' may be missing; the remote
\* lists a member once.
Bindings ==
    {[role |-> r, hasMembers |-> FALSE, members |-> <<>>] : r \in Roles}
    \cup {[role |-> r, hasMembers |-> TRUE, members |-> m] :
                r \in Roles, m \in Lists(Members, Cardinality(Members))}

\* A policy as getIamPolicy returns it, of at most nb bindings: 'bindings'
\* may be missing.
Policies(nb) ==
    {[hasBindings |-> FALSE, bindings |-> <<>>]}
    \cup {[hasBindings |-> TRUE, bindings |-> b] : b \in UNION {[1..k -> Bindings] : k \in 0..nb}}

\* policy_dict.get('bindings', []) and binding.get('members', []).
GetBindings(policy_dict) == IF policy_dict.hasBindings THEN policy_dict.bindings ELSE <<>>
GetMembers(binding) == IF binding.hasMembers THEN binding.members ELSE <<>>

\* The flag the scan of the fetched policy computes.
allUsers_is_invoker_member(policy_dict) ==
    \E i \in 1..Len(GetBindings(policy_dict)) :
        LET binding == GetBindings(policy_dict)[i] IN
        \E j \in 1..Len(GetMembers(binding)) :
            GetMembers(binding)[j] = ALL_USERS /\ binding.role = INVOKER

\* The condition under which update_webhook_access returns 200 without a POST.
NoChangeNeeded(internal_only, policy_dict) ==
    \/ (~internal_only /\ allUsers_is_invoker_member(policy_dict))
    \/ (internal_only /\ ~allUsers_is_invoker_member(policy_dict))

\* RemoveAllUsers as it would be if the scan stopped at the first invoker
\* binding it edits.
RemoveAllUsersFirstOnly(policy_dict) ==
    [policy_dict EXCEPT !.bindings =
        [i \in 1..Len(GetBindings(policy_dict)) |->
            LET binding == GetBindings(policy_dict)[i] IN
            IF /\ Len(GetMembers(binding)) > 0 /\ binding.role = INVOKER
               /\ \A j \in 1..(i - 1) :
                    ~(/\ Len(GetMembers(GetBindings(policy_dict)[j])) > 0
                      /\ GetBindings(policy_dict)[j].role = INVOKER)
            THEN [binding EXCEPT !.members = SelectSeq(binding.members, LAMBDA m : m # ALL_USERS)]
            ELSE binding]]

\* The internal_only branch as it would be without the test of the role.
RemoveAllUsersAnyRole(policy_dict) ==
    [policy_dict EXCEPT !.bindings =
        [i \in 1..Len(GetBindings(policy_dict)) |->
            LET binding == GetBindings(policy_dict)[i] IN
            IF Len(GetMembers(binding)) > 0
            THEN [binding EXCEPT !.members = SelectSeq(binding.members, LAMBDA m : m # ALL_USERS)]
            ELSE binding]]

\* The internal_only branch: every invoker binding that has at least one
\* member gets its members filtered; the other bindings are left as fetched.
RemoveAllUsers(policy_dict) ==
    [policy_dict EXCEPT !.bindings =
        [i \in 1..Len(GetBindings(policy_dict)) |->
            LET binding == GetBindings(policy_dict)[i] IN
            IF Len(GetMembers(binding)) > 0 /\ binding.role = INVOKER
            THEN [binding EXCEPT !.members = SelectSeq(binding.members, LAMBDA m : m # ALL_USERS)]
            ELSE binding]]

\* The bindings the public branch starts from: a fresh invoker binding when
\* 'bindings' is missing or empty.
SeedBindings(policy_dict) ==
    IF ~policy_dict.hasBindings \/ Len(policy_dict.bindings) = 0
    THEN <<[role |-> INVOKER, hasMembers |-> TRUE, members |-> <<>>]>>
    ELSE policy_dict.bindings

\* binding['members'].append('allUsers') on an invoker binding without a
\* 'members' key is a KeyError.
AddRaises(policy_dict) ==
    \E i \in 1..Len(SeedBindings(policy_dict)) :
        /\ SeedBindings(policy_dict)[i].role = INVOKER
        /\ ~SeedBindings(policy_dict)[i].hasMembers

\* The public branch as it would be if it appended a fresh invoker binding
\* without looking for one.
AddAllUsersInNewBinding(policy_dict) ==
    [hasBindings |-> TRUE,
     bindings |-> Append(GetBindings(policy_dict),
                         [role |-> INVOKER, hasMembers |-> TRUE, members |-> <<ALL_USERS>>])]

\* The public branch, when it does not raise: 'allUsers' is appended to
\* every invoker binding, and an invoker binding is appended if there is none.
AddAllUsers(policy_dict) ==
    LET seeded == SeedBindings(policy_dict)
        invoker_role_exists == \E i \in 1..Len(seeded) : seeded[i].role = INVOKER
        appended == [i \in 1..Len(seeded) |->
                        IF seeded[i].role = INVOKER
                        THEN [seeded[i] EXCEPT !.members = Append(seeded[i].members, ALL_USERS)]
                        ELSE seeded[i]]
    IN  [hasBindings |-> TRUE,
         bindings |-> IF invoker_role_exists
                      THEN appended
                      ELSE Append(appended, [role |-> INVOKER, hasMembers |-> TRUE,
                                             members |-> <<ALL_USERS>>])]

\* ------------------------------------------------------- service perimeters

\* API names are strs: 'cloudfunctions.googleapis.com' is written cf,
\* 'dialogflow.googleapis.com' df and 'storage.googleapis.com' st. As with
\* the real names, none is a substring of another and none is one character.
CLOUDFUNCTIONS_API == <<"c", "f">>
DIALOGFLOW_API == <<"d", "f">>
STORAGE_API == <<"s", "t">>
Apis == {CLOUDFUNCTIONS_API, DIALOGFLOW_API, STORAGE_API}

\* The value under service_perimeter_status['status']['restrictedServices']:
\* the key is missing, or it holds a list of strs, or it holds a str.
AbsentRS == [t |-> "absent", v |-> <<>>]
ListRS(l) == [t |-> "list", v |-> l]
StrRS(s) == [t |-> "str", v |-> s]

\* What the access context manager can hold and return for the field.
RemoteRS(n) == {AbsentRS} \cup {ListRS(l) : l \in Lists(Apis, n)}

\* Python's `api in x`: membership in a list, substring of a str.
PyIn(api, rs) ==
    IF rs.t = "list" THEN \E i \in 1..Len(rs.v) : rs.v[i] = api
    ELSE IF rs.t = "str"
         THEN \E k \in 1..Len(rs.v) :
                 k + Len(api) - 1 <= Len(rs.v) /\ SubSeq(rs.v, k, k + Len(api) - 1) = api
         ELSE FALSE

\* The filter with == for !=: it keeps the api and drops the rest.
PyFilterKeeps(api, rs) ==
    IF rs.t = "list" THEN ListRS(SelectSeq(rs.v, LAMBDA service : service = api))
    ELSE ListRS(SelectSeq([i \in 1..Len(rs.v) |-> <<rs.v[i]>>], LAMBDA service : service = api))

\* [service for service in x if service != api]: iterating a list yields its
\* items, iterating a str yields its characters; the result is a list.
PyFilter(api, rs) ==
    IF rs.t = "list" THEN ListRS(SelectSeq(rs.v, LAMBDA service : service # api))
    ELSE ListRS(SelectSeq([i \in 1..Len(rs.v) |-> <<rs.v[i]>>], LAMBDA service : service # api))

\* update_service_perimeter_status_inplace as it would be without the test
\* that the api is already restricted.
inplace_always_appends(api, restrict_access, rs) ==
    IF ~restrict_access
    THEN IF rs.t = "absent" THEN [outcome |-> "response", rs |-> rs]
         ELSE IF ~PyIn(api, rs) THEN [outcome |-> "response", rs |-> rs]
         ELSE [outcome |-> "none", rs |-> PyFilter(api, rs)]
    ELSE IF rs.t = "absent" THEN [outcome |-> "none", rs |-> StrRS(api)]
         ELSE IF rs.t = "list" THEN [outcome |-> "none", rs |-> ListRS(Append(rs.v, api))]
         ELSE [outcome |-> "raised", rs |-> rs]

\* What update_service_perimeter_status_inplace does to restrictedServices and
\* how it ends: "response" (it returned flask.Response(status=200) and changed
\* nothing), "none" (it changed the status and returned None) or "raised"
\* (str has no append).
update_service_perimeter_status_inplace(api, restrict_access, rs) ==
    IF ~restrict_access
    THEN IF rs.t = "absent" THEN [outcome |-> "response", rs |-> rs]
         ELSE IF ~PyIn(api, rs) THEN [outcome |-> "response", rs |-> rs]
         ELSE [outcome |-> "none", rs |-> PyFilter(api, rs)]
    ELSE IF rs.t = "absent" THEN [outcome |-> "none", rs |-> StrRS(api)]
         ELSE IF PyIn(api, rs) THEN [outcome |-> "response", rs |-> rs]
         ELSE IF rs.t = "list" THEN [outcome |-> "none", rs |-> ListRS(Append(rs.v, api))]
         ELSE [outcome |-> "raised", rs |-> rs]

\* restrictedServices is a repeated string field of the remote perimeter: the
\* remote holds a list whatever JSON it accepted, a str as its one element.
StoredRS(rs) == IF rs.t = "str" THEN ListRS(<<rs.v>>) ELSE rs

\* ------------------------------------------------------------ HTTP results

\* Non-200 status codes a control-plane call can answer with.
UpstreamErrors == {403, 503}

\* flask.Response(status=200).
Ok200 == [status |-> 200, body |-> ""]
\* flask.Response(status=200, response=json.dumps({'status':'BLOCKED', ...})).
Blocked == [status |-> 200, body |-> "{status:BLOCKED,reason:NO_PROJECT_ID}"]
\* flask.Response(status=r.status_code, response=r.text).
Passed(code) == [status |-> code, body |-> "r.text"]
\* flask.abort(r.status_code): werkzeug's HTTPException of that code, whose
\* body is werkzeug's own description page, not r.text.
Aborted(code) == [status |-> code, body |-> "HTTPException.description"]
\* token_dict['response'], whatever get_token made of it.
TokenResponse == [status |-> 401, body |-> "token_dict.response"]
\* The response part of a collaborator's {'response': ...}.
CollaboratorResponse(code) == [status |-> code, body |-> "su.response"]
\* No response yet, or none at all (the view raised).
NoResponse == [status |-> 0, body |-> ""]

\* flask.request.get_json(silent=True): {"status": true}, {"status": false},
\* or None when the body is missing or is not JSON.
Contents == {"true", "false", "None"}

\* ------------------------------------------------------------------- state

Procs == {"p1", "p2"}

VARIABLES
    \* the remote control plane
    policy,                     \* the function's IAM policy
    function,                   \* the function descriptor (ingressSettings, ...)
    perimeter,                  \* the service perimeter's status
    webhook,                    \* the Dialogflow webhook's fulfillment
    \* one invocation per process
    ep,                         \* the endpoint invoked
    pc,                         \* idle, fetch, uri, apply, agents, webhooks, done, raised
    desired,                    \* content['status']
    policy_dict,                \* update_webhook_access's local
    webhook_data,               \* update_webhook_ingress's local
    service_perimeter_status,   \* update_security_perimeter's local
    data,                       \* update_service_directory_webhook_fulfillment's local
    resp,                       \* the response returned to the caller
    exception,                  \* the exception that ended the invocation
    fetches,                    \* reads and resolutions requested of the control plane
    mutations,                  \* setIamPolicy POSTs and PATCHes requested
    \* history
    request,                    \* what the request held
    fetched,                    \* what the fetch of the current state returned
    su_error,                   \* the collaborator call that returned an error-response
    settled,                    \* the desired value of the last 200 of update_webhook_access
    repeat,                     \* the invocation fetched a policy settled on its own desired value
    log,                        \* the requests the invocation made, in order
    \* the evaluator on its own
    S0, S, A, calls, inplace_raised

remote == <<policy, function, perimeter, webhook>>
locals == <<policy_dict, webhook_data, service_perimeter_status, data>>
counts == <<fetches, mutations>>
history == <<request, fetched, su_error, settled, repeat, log>>
evaluator == <<S0, S, A, calls, inplace_raised>>
vars == <<policy, function, perimeter, webhook, ep, pc, desired, policy_dict, webhook_data,
          service_perimeter_status, data, resp, exception, fetches, mutations, request, fetched,
          su_error, settled, repeat, log, S0, S, A, calls, inplace_raised>>

NoRequest == [token_ok |-> FALSE, content |-> "None", has_project_id |-> FALSE]
NoSuError == [who |-> "none", code |-> 200]

\* The state common to every specification's initial states: no invocation
\* has begun.
InitProcs ==
    /\ ep = [p \in Procs |-> "none"]
    /\ pc = [p \in Procs |-> "idle"]
    /\ desired = [p \in Procs |-> FALSE]
    /\ policy_dict = [p \in Procs |-> [hasBindings |-> FALSE, bindings |-> <<>>]]
    /\ webhook_data = [p \in Procs |-> [ingressSettings |-> "ALLOW_ALL", labels |-> "none"]]
    /\ service_perimeter_status = [p \in Procs |-> [restrictedServices |-> AbsentRS, resources |-> "none"]]
    /\ data = [p \in Procs |-> "none"]
    /\ resp = [p \in Procs |-> NoResponse]
    /\ exception = [p \in Procs |-> "none"]
    /\ fetches = [p \in Procs |-> 0]
    /\ mutations = [p \in Procs |-> 0]
    /\ request = [p \in Procs |-> NoRequest]
    /\ fetched = [p \in Procs |-> [result |-> "none"]]
    /\ su_error = [p \in Procs |-> NoSuError]
    /\ settled = "none"
    /\ repeat = [p \in Procs |-> FALSE]
    /\ log = [p \in Procs |-> <<>>]

\* Fixed values for what a specification does not exercise.
QuietEvaluator ==
    /\ S0 = AbsentRS /\ S = AbsentRS /\ A = CLOUDFUNCTIONS_API /\ calls = <<>>
    /\ inplace_raised = FALSE
QuietPolicy == policy = [hasBindings |-> FALSE, bindings |-> <<>>]
QuietFunction == function = [ingressSettings |-> "ALLOW_ALL", labels |-> "l1"]
QuietPerimeter == perimeter = [restrictedServices |-> AbsentRS, resources |-> "r"]
QuietWebhook == webhook = "genericWebService"

\* The invocation of p ends with response r.
Return(p, r) ==
    /\ pc' = [pc EXCEPT ![p] = "done"]
    /\ resp' = [resp EXCEPT ![p] = r]
    /\ exception' = exception
\* The invocation of p ends with an uncaught exception.
Raise(p, exc) ==
    /\ pc' = [pc EXCEPT ![p] = "raised"]
    /\ resp' = resp
    /\ exception' = [exception EXCEPT ![p] = exc]
\* The invocation of p goes on at `next`.
Goto(p, next) ==
    /\ pc' = [pc EXCEPT ![p] = next]
    /\ resp' = resp
    /\ exception' = exception

\* The request p received.
Received(p, token_ok, content, has_project_id) ==
    request' = [request EXCEPT ![p] = [token_ok |-> token_ok, content |-> content,
                                       has_project_id |-> has_project_id]]

\* The invocation of p made the request `call`, answered with status `code`.
Called(p, call, code) == log' = [log EXCEPT ![p] = Append(@, [call |-> call, code |-> code])]

\* content['status'] on the None that get_json(silent=True) returns.
NoContent == "TypeError: 'NoneType' object is not subscriptable"

\* ---------------------------------------------------- update_webhook_access

\* Lines 36-53: the token, then the body, then project_id.
AccessReceive(p) ==
    /\ pc[p] = "idle"
    /\ ep' = [ep EXCEPT ![p] = "update_webhook_access"]
    /\ \E token_ok \in BOOLEAN, content \in Contents, has_project_id \in BOOLEAN :
        /\ Received(p, token_ok, content, has_project_id)
        /\ IF ~token_ok THEN Return(p, TokenResponse) /\ desired' = desired
           ELSE IF content = "None" THEN Raise(p, NoContent) /\ desired' = desired
           ELSE /\ desired' = [desired EXCEPT ![p] = (content = "true")]
                /\ IF ~has_project_id THEN Return(p, Blocked) ELSE Goto(p, "fetch")
    /\ UNCHANGED <<remote, locals, counts, fetched, su_error, settled, repeat, log, evaluator>>

\* The policy update_webhook_access sends, given the one it fetched.
NewPolicy(internal_only, fetched_policy) ==
    IF internal_only THEN RemoveAllUsers(fetched_policy) ELSE AddAllUsers(fetched_policy)

\* The value of `settled` for a desired boolean.
Settled(internal_only) == IF internal_only THEN "true" ELSE "false"

\* Lines 55-87: getIamPolicy, the scan, the decision and the edit of the
\* local policy_dict.
GetIamPolicy(p) ==
    /\ pc[p] = "fetch" /\ ep[p] = "update_webhook_access"
    /\ fetches' = [fetches EXCEPT ![p] = @ + 1]
    /\ \/ \E code \in UpstreamErrors :
            /\ Return(p, Aborted(code))
            /\ Called(p, "getIamPolicy", code)
            /\ fetched' = [fetched EXCEPT ![p] = [result |-> "error", code |-> code]]
            /\ UNCHANGED <<policy_dict, settled, repeat>>
       \/ /\ fetched' = [fetched EXCEPT ![p] = [result |-> "ok", value |-> policy]]
          /\ Called(p, "getIamPolicy", 200)
          /\ repeat' = [repeat EXCEPT ![p] = (settled = Settled(desired[p]))]
          /\ IF NoChangeNeeded(desired[p], policy)
             THEN /\ Return(p, Ok200)
                  /\ policy_dict' = [policy_dict EXCEPT ![p] = policy]
                  /\ settled' = Settled(desired[p])
             ELSE IF ~desired[p] /\ AddRaises(policy)
             THEN /\ Raise(p, "KeyError: 'members'")
                  /\ policy_dict' = [policy_dict EXCEPT ![p] = policy]
                  /\ settled' = settled
             ELSE /\ Goto(p, "apply")
                  /\ policy_dict' = [policy_dict EXCEPT ![p] = NewPolicy(desired[p], policy)]
                  /\ settled' = settled
    /\ UNCHANGED <<remote, ep, desired, webhook_data, service_perimeter_status, data, mutations,
                   request, su_error, evaluator>>

\* setIamPolicy as it would be with a second attempt after a failure.
SetIamPolicyRetrying(p) ==
    /\ pc[p] = "apply" /\ ep[p] = "update_webhook_access" /\ mutations[p] < 2
    /\ mutations' = [mutations EXCEPT ![p] = @ + 1]
    /\ \/ \E code \in UpstreamErrors :
            /\ IF mutations[p] = 0 THEN Goto(p, "apply") ELSE Return(p, Aborted(code))
            /\ Called(p, "setIamPolicy", code)
            /\ UNCHANGED <<policy, settled>>
       \/ /\ Return(p, Ok200) /\ Called(p, "setIamPolicy", 200)
          /\ policy' = policy_dict[p]
          /\ settled' = Settled(desired[p])
    /\ UNCHANGED <<function, perimeter, webhook, ep, desired, locals, fetches, request, fetched,
                   su_error, repeat, evaluator>>

\* Lines 88-92: setIamPolicy with the edited policy_dict.
SetIamPolicy(p) ==
    /\ pc[p] = "apply" /\ ep[p] = "update_webhook_access"
    /\ mutations' = [mutations EXCEPT ![p] = @ + 1]
    /\ \/ \E code \in UpstreamErrors :
            /\ Return(p, Aborted(code)) /\ Called(p, "setIamPolicy", code)
            /\ UNCHANGED <<policy, settled>>
       \/ /\ Return(p, Ok200) /\ Called(p, "setIamPolicy", 200)
          /\ policy' = policy_dict[p]
          /\ settled' = Settled(desired[p])
    /\ UNCHANGED <<function, perimeter, webhook, ep, desired, locals, fetches, request, fetched,
                   su_error, repeat, evaluator>>

\* --------------------------------------------------- update_webhook_ingress

IngressSettings == {"ALLOW_ALL", "ALLOW_INTERNAL_ONLY", "ALLOW_INTERNAL_AND_GCLB"}
\* The function descriptors the Cloud Functions API can return; labels stands
\* for every field other than ingressSettings.
Functions == [ingressSettings : IngressSettings, labels : {"l1", "l2"}]

\* The two settings taken for each other.
ingress_settings_swapped(internal_only) ==
    IF internal_only THEN "ALLOW_ALL" ELSE "ALLOW_INTERNAL_ONLY"

\* Lines 110-113.
ingress_settings(internal_only) == IF internal_only THEN "ALLOW_INTERNAL_ONLY" ELSE "ALLOW_ALL"

\* Lines 97-119: the token, then project_id, then the body.
IngressReceive(p) ==
    /\ pc[p] = "idle"
    /\ ep' = [ep EXCEPT ![p] = "update_webhook_ingress"]
    /\ \E token_ok \in BOOLEAN, content \in Contents, has_project_id \in BOOLEAN :
        /\ Received(p, token_ok, content, has_project_id)
        /\ IF ~token_ok THEN Return(p, TokenResponse) /\ desired' = desired
           ELSE IF ~has_project_id THEN Return(p, Blocked) /\ desired' = desired
           ELSE IF content = "None" THEN Raise(p, NoContent) /\ desired' = desired
           ELSE Goto(p, "fetch") /\ desired' = [desired EXCEPT ![p] = (content = "true")]
    /\ UNCHANGED <<remote, locals, counts, fetched, su_error, settled, repeat, log, evaluator>>

\* Lines 120-128: the GET of the function, the comparison and the edit of
\* the local webhook_data.
GetFunction(p) ==
    /\ pc[p] = "fetch" /\ ep[p] = "update_webhook_ingress"
    /\ fetches' = [fetches EXCEPT ![p] = @ + 1]
    /\ \/ \E code \in UpstreamErrors :
            /\ Return(p, Passed(code))
            /\ Called(p, "GET function", code)
            /\ fetched' = [fetched EXCEPT ![p] = [result |-> "error", code |-> code]]
            /\ webhook_data' = webhook_data
       \/ /\ fetched' = [fetched EXCEPT ![p] = [result |-> "ok", value |-> function]]
          /\ Called(p, "GET function", 200)
          /\ IF function.ingressSettings = ingress_settings(desired[p])
             THEN /\ Return(p, Ok200)
                  /\ webhook_data' = [webhook_data EXCEPT ![p] = function]
             ELSE /\ Goto(p, "apply")
                  /\ webhook_data' = [webhook_data EXCEPT ![p] =
                        [function EXCEPT !.ingressSettings = ingress_settings(desired[p])]]
    /\ UNCHANGED <<remote, ep, desired, policy_dict, service_perimeter_status, data, mutations,
                   request, su_error, settled, repeat, evaluator>>

\* Lines 129-133: the PATCH of the whole descriptor.
PatchFunction(p) ==
    /\ pc[p] = "apply" /\ ep[p] = "update_webhook_ingress"
    /\ mutations' = [mutations EXCEPT ![p] = @ + 1]
    /\ \/ \E code \in UpstreamErrors :
            Return(p, Passed(code)) /\ Called(p, "PATCH function", code) /\ function' = function
       \/ Return(p, Ok200) /\ Called(p, "PATCH function", 200) /\ function' = webhook_data[p]
    /\ UNCHANGED <<policy, perimeter, webhook, ep, desired, locals, fetches, request, fetched,
                   su_error, settled, repeat, evaluator>>

\* ------------------------------------------------ update_security_perimeter

PerimeterEndpoints ==
    {"update_security_perimeter_cloudfunctions", "update_security_perimeter_dialogflow"}

\* The api each perimeter endpoint passes to update_security_perimeter.
ApiOf(endpoint) ==
    IF endpoint = "update_security_perimeter_cloudfunctions"
    THEN CLOUDFUNCTIONS_API ELSE DIALOGFLOW_API

\* A collaborator of status_utilities answered p with {'response': ...}.
SuError(p, who, code) == su_error' = [su_error EXCEPT ![p] = [who |-> who, code |-> code]]

\* Lines 173-191 and 195-213: the token, then project_id, then
\* su.get_access_policy_name, then the body.
PerimeterReceive(p) ==
    /\ pc[p] = "idle"
    /\ \E endpoint \in PerimeterEndpoints, token_ok \in BOOLEAN, content \in Contents,
          has_project_id \in BOOLEAN, name_code \in {200} \cup UpstreamErrors :
        /\ ep' = [ep EXCEPT ![p] = endpoint]
        /\ Received(p, token_ok, content, has_project_id)
        /\ IF ~token_ok
           THEN Return(p, TokenResponse) /\ UNCHANGED <<desired, fetches, su_error, log>>
           ELSE IF ~has_project_id
           THEN Return(p, Blocked) /\ UNCHANGED <<desired, fetches, su_error, log>>
           ELSE /\ fetches' = [fetches EXCEPT ![p] = @ + 1]
                /\ Called(p, "get_access_policy_name", name_code)
                /\ IF name_code # 200
                   THEN /\ Return(p, CollaboratorResponse(name_code))
                        /\ SuError(p, "get_access_policy_name", name_code)
                        /\ desired' = desired
                   ELSE IF content = "None"
                   THEN Raise(p, NoContent) /\ UNCHANGED <<desired, su_error>>
                   ELSE /\ Goto(p, "fetch")
                        /\ desired' = [desired EXCEPT ![p] = (content = "true")]
                        /\ su_error' = su_error
    /\ UNCHANGED <<remote, locals, mutations, fetched, settled, repeat, evaluator>>

\* Lines 153-156: su.get_service_perimeter_status and the evaluator. What the
\* collaborator returns is handed to the evaluator unchecked: an
\* error-response has no 'status' key, and the subscript raises.
GetServicePerimeterStatus(p) ==
    /\ pc[p] = "fetch" /\ ep[p] \in PerimeterEndpoints
    /\ fetches' = [fetches EXCEPT ![p] = @ + 1]
    /\ \/ \E code \in UpstreamErrors :
            /\ Raise(p, "KeyError: 'status'")
            /\ Called(p, "get_service_perimeter_status", code)
            /\ fetched' = [fetched EXCEPT ![p] = [result |-> "error", code |-> code]]
            /\ SuError(p, "get_service_perimeter_status", code)
            /\ service_perimeter_status' = service_perimeter_status
       \/ LET r == update_service_perimeter_status_inplace(
                       ApiOf(ep[p]), desired[p], perimeter.restrictedServices)
          IN  /\ fetched' = [fetched EXCEPT ![p] = [result |-> "ok", value |-> perimeter]]
              /\ Called(p, "get_service_perimeter_status", 200)
              /\ su_error' = su_error
              /\ service_perimeter_status' = [service_perimeter_status EXCEPT ![p] =
                    [perimeter EXCEPT !.restrictedServices = r.rs]]
              /\ IF r.outcome = "response" THEN Return(p, Ok200)
                 ELSE IF r.outcome = "raised"
                 THEN Raise(p, "AttributeError: 'str' object has no attribute 'append'")
                 ELSE Goto(p, "uri")
    /\ UNCHANGED <<remote, ep, desired, policy_dict, webhook_data, data, mutations, request,
                   settled, repeat, evaluator>>

\* Lines 161-164: su.get_service_perimeter_data_uri. On {'response': ...} the
\* view returns the dict itself, not its 'response': Flask cannot make a
\* response of a dict that holds a Response object, and raises.
GetServicePerimeterDataUri(p) ==
    /\ pc[p] = "uri" /\ ep[p] \in PerimeterEndpoints
    /\ fetches' = [fetches EXCEPT ![p] = @ + 1]
    /\ \/ \E code \in UpstreamErrors :
            /\ Raise(p, "TypeError: Object of type Response is not JSON serializable")
            /\ SuError(p, "get_service_perimeter_data_uri", code)
            /\ Called(p, "get_service_perimeter_data_uri", code)
       \/ /\ Goto(p, "apply") /\ su_error' = su_error
          /\ Called(p, "get_service_perimeter_data_uri", 200)
    /\ UNCHANGED <<remote, ep, desired, locals, mutations, request, fetched, settled, repeat,
                   evaluator>>

\* A PATCH that names no field.
NoUpdateMask == ""

\* Line 165: params={'updateMask': 'status.restrictedServices'}.
UpdateMask == "status.restrictedServices"

\* A remote that would add the services of the body to those it holds rather
\* than replace them.
MergedPerimeter(current, body, updateMask) ==
    LET held == IF current.restrictedServices.t = "list" THEN current.restrictedServices.v
                ELSE <<>>
        sent == IF StoredRS(body.restrictedServices).t = "list"
                THEN StoredRS(body.restrictedServices).v ELSE <<>>
    IN  [current EXCEPT !.restrictedServices =
            ListRS(held \o SelectSeq(sent, LAMBDA service : service \notin Range(held)))]

\* The perimeter status the remote holds after a PATCH it accepts: with the
\* mask it replaces restrictedServices alone, without one the whole status.
PatchedPerimeter(current, body, updateMask) ==
    IF updateMask = "status.restrictedServices"
    THEN [current EXCEPT !.restrictedServices = StoredRS(body.restrictedServices)]
    ELSE [body EXCEPT !.restrictedServices = StoredRS(body.restrictedServices)]

\* The invocation of p sent the PATCH of the perimeter: its mask, the status
\* the remote held before it and the one it holds after.
Patched(p, code, after) ==
    log' = [log EXCEPT ![p] = Append(@, [call |-> "PATCH servicePerimeter", code |-> code,
                                          updateMask |-> UpdateMask, before |-> perimeter,
                                          after |-> after])]

\* Lines 165-169: the PATCH with updateMask=status.restrictedServices.
PatchPerimeter(p) ==
    /\ pc[p] = "apply" /\ ep[p] \in PerimeterEndpoints
    /\ mutations' = [mutations EXCEPT ![p] = @ + 1]
    /\ \/ \E code \in UpstreamErrors :
            Return(p, Passed(code)) /\ perimeter' = perimeter /\ Patched(p, code, perimeter)
       \/ LET after == PatchedPerimeter(perimeter, service_perimeter_status[p], UpdateMask)
          IN  Return(p, Ok200) /\ perimeter' = after /\ Patched(p, 200, after)
    /\ UNCHANGED <<policy, function, webhook, ep, desired, locals, fetches, request, fetched,
                   su_error, settled, repeat, evaluator>>

\* The fields of the perimeter other than restrictedServices, as another
\* party can set them.
Resources == {"r", "r2"}

\* Another party edits a field of the perimeter other than restrictedServices
\* while invocations are between their fetch and their PATCH.
OtherPartyEdits ==
    /\ \E r \in Resources \ {perimeter.resources} :
            perimeter' = [perimeter EXCEPT !.resources = r]
    /\ UNCHANGED <<policy, function, webhook, ep, pc, desired, locals, resp, exception, counts,
                   history, evaluator>>

\* ----------------------------- update_service_directory_webhook_fulfillment

\* The mode of a true status under a name the branches do not know.
FulfillmentMisspelt(status) == IF status THEN "service_directory" ELSE "generic-web-service"

\* Lines 224-227.
Fulfillment(status) == IF status THEN "service-directory" ELSE "generic-web-service"

\* Lines 218-237: the token, then the body, then project_id, then the
\* arguments bucket, region and webhook_name, whose subscript is a 400 of
\* werkzeug when one is missing.
FulfillmentReceive(p) ==
    /\ pc[p] = "idle"
    /\ ep' = [ep EXCEPT ![p] = "update_service_directory_webhook_fulfillment"]
    /\ \E token_ok \in BOOLEAN, content \in Contents, has_project_id \in BOOLEAN,
          has_args \in BOOLEAN :
        /\ Received(p, token_ok, content, has_project_id)
        /\ IF ~token_ok THEN Return(p, TokenResponse) /\ desired' = desired
           ELSE IF content = "None" THEN Raise(p, NoContent) /\ desired' = desired
           ELSE /\ desired' = [desired EXCEPT ![p] = (content = "true")]
                /\ IF ~has_project_id THEN Return(p, Blocked)
                   ELSE IF ~has_args THEN Return(p, Aborted(400))
                   ELSE Goto(p, "agents")
    /\ UNCHANGED <<remote, locals, counts, fetched, su_error, settled, repeat, log, evaluator>>

\* Lines 239-242: su.get_agents; result['data']['Telecommunications'] raises
\* KeyError when the project has no such agent.
GetAgents(p) ==
    /\ pc[p] = "agents"
    /\ fetches' = [fetches EXCEPT ![p] = @ + 1]
    /\ \/ \E code \in UpstreamErrors :
            /\ Return(p, CollaboratorResponse(code)) /\ SuError(p, "get_agents", code)
            /\ Called(p, "get_agents", code)
       \/ /\ Raise(p, "KeyError: 'Telecommunications'") /\ su_error' = su_error
          /\ Called(p, "get_agents", 200)
       \/ /\ Goto(p, "webhooks") /\ su_error' = su_error
          /\ Called(p, "get_agents", 200)
    /\ UNCHANGED <<remote, ep, desired, locals, mutations, request, fetched, settled, repeat,
                   evaluator>>

\* Lines 248-269: the body of the PATCH, by the fulfillment mode:
\* "genericWebService", "serviceDirectory" (which needs the CA certificate of
\* the bucket), or no body at all.
WebhookData(fulfillment) ==
    IF fulfillment = "generic-web-service" THEN "genericWebService"
    ELSE IF fulfillment = "service-directory" THEN "serviceDirectory"
    ELSE "unexpected"

\* Lines 268-269.
UnexpectedFulfillment == [status |-> 500, body |-> "Unexpected setting for fulfillment"]

\* Lines 243-269: su.get_webhooks, then the body of the PATCH. The download
\* of server.der is a storage call that raises when it fails.
GetWebhooks(p) ==
    /\ pc[p] = "webhooks"
    /\ fetches' = [fetches EXCEPT ![p] = @ + 1]
    /\ \/ \E code \in UpstreamErrors :
            /\ Return(p, CollaboratorResponse(code))
            /\ SuError(p, "get_webhooks", code)
            /\ Called(p, "get_webhooks", code)
            /\ data' = data
       \/ /\ Raise(p, "KeyError: 'cxPrebuiltAgentsTelecom'") /\ UNCHANGED <<data, su_error>>
          /\ Called(p, "get_webhooks", 200)
       \/ \E cert_ok \in BOOLEAN :
            LET d == WebhookData(Fulfillment(desired[p])) IN
            /\ su_error' = su_error
            /\ Called(p, "get_webhooks", 200)
            /\ IF d = "unexpected"
               THEN /\ Return(p, UnexpectedFulfillment)
                    /\ data' = data
               ELSE IF d = "serviceDirectory" /\ ~cert_ok
               THEN Raise(p, "google.cloud.exceptions.NotFound") /\ data' = data
               ELSE Goto(p, "apply") /\ data' = [data EXCEPT ![p] = d]
    /\ UNCHANGED <<remote, ep, desired, policy_dict, webhook_data, service_perimeter_status,
                   mutations, request, fetched, settled, repeat, evaluator>>

\* Lines 272-280: the PATCH of the webhook.
PatchWebhook(p) ==
    /\ pc[p] = "apply" /\ ep[p] = "update_service_directory_webhook_fulfillment"
    /\ mutations' = [mutations EXCEPT ![p] = @ + 1]
    /\ \/ \E code \in UpstreamErrors :
            Return(p, Aborted(code)) /\ Called(p, "PATCH webhook", code) /\ webhook' = webhook
       \/ Return(p, Ok200) /\ Called(p, "PATCH webhook", 200) /\ webhook' = data[p]
    /\ UNCHANGED <<policy, function, perimeter, ep, desired, locals, fetches, request, fetched,
                   su_error, settled, repeat, evaluator>>

\* ------------------------------- update_service_perimeter_status_inplace alone

\* One call of the evaluator on the status S, which it edits in place.
InplaceCall(restrict_access) ==
    /\ ~inplace_raised /\ Len(calls) < MaxCalls
    /\ LET r == update_service_perimeter_status_inplace(A, restrict_access, S)
       IN  S' = r.rs /\ inplace_raised' = (r.outcome = "raised")
    /\ calls' = Append(calls, restrict_access)
    /\ UNCHANGED <<remote, ep, pc, desired, locals, resp, exception, counts, history, S0, A>>

Restrict == InplaceCall(TRUE)
Unrestrict == InplaceCall(FALSE)

\* Every fetched status and api name, before any call.
InitInplace ==
    /\ S0 \in RemoteRS(MaxServices) /\ S = S0 /\ A \in Apis /\ calls = <<>>
    /\ inplace_raised = FALSE
    /\ QuietPolicy /\ QuietFunction /\ QuietPerimeter /\ QuietWebhook /\ InitProcs

NextInplace == Restrict \/ Unrestrict

SpecInplace == InitInplace /\ [][NextInplace]_vars

\* ---------------------------------------------------------- specifications

\* update_webhook_access, two invocations, from every policy.
InitAccess ==
    /\ policy \in Policies(MaxBindings)
    /\ QuietFunction /\ QuietPerimeter /\ QuietWebhook /\ InitProcs /\ QuietEvaluator

NextAccess == \E p \in Procs : AccessReceive(p) \/ GetIamPolicy(p) \/ SetIamPolicy(p)

SpecAccess == InitAccess /\ [][NextAccess]_vars

\* The perimeter endpoints, two invocations, from every perimeter status.
InitPerimeter ==
    /\ perimeter \in [restrictedServices : RemoteRS(MaxServices), resources : {"r"}]
    /\ QuietPolicy /\ QuietFunction /\ QuietWebhook /\ InitProcs /\ QuietEvaluator

NextPerimeter ==
    \/ \E p \in Procs :
        \/ PerimeterReceive(p)
        \/ GetServicePerimeterStatus(p)
        \/ GetServicePerimeterDataUri(p)
        \/ PatchPerimeter(p)
    \/ OtherPartyEdits

SpecPerimeter == InitPerimeter /\ [][NextPerimeter]_vars

\* Every endpoint, one invocation, from small remote states.
Init ==
    /\ policy \in Policies(SmallBindings)
    /\ function \in Functions
    /\ perimeter \in [restrictedServices : RemoteRS(SmallServices), resources : {"r"}]
    /\ webhook \in {"genericWebService", "serviceDirectory"}
    /\ InitProcs /\ QuietEvaluator

Next ==
    \E p \in {"p1"} :
        \/ AccessReceive(p) \/ GetIamPolicy(p) \/ SetIamPolicy(p)
        \/ IngressReceive(p) \/ GetFunction(p) \/ PatchFunction(p)
        \/ PerimeterReceive(p) \/ GetServicePerimeterStatus(p)
        \/ GetServicePerimeterDataUri(p) \/ PatchPerimeter(p)
        \/ FulfillmentReceive(p) \/ GetAgents(p) \/ GetWebhooks(p) \/ PatchWebhook(p)

Spec == Init /\ [][Next]_vars

\* ------------------------------------------------------------------ claims

\* The invocation of p is over.
Ended(p) == pc[p] \in {"done", "raised"}
\* No invocation but p's has begun.
Alone(p) == \A q \in Procs \ {p} : pc[q] = "idle"
\* The invocation of p returned 200 with an empty body and requested no mutation.
Skipped(p) == pc[p] = "done" /\ resp[p] = Ok200 /\ mutations[p] = 0
\* 'allUsers' is a member of some binding with role roles/cloudfunctions.invoker.
PublicInvoker(pol) ==
    \E b \in Range(GetBindings(pol)) : b.role = INVOKER /\ ALL_USERS \in Range(GetMembers(b))
\* The services a restrictedServices value restricts, a missing key being the
\* empty set.
RestrictedSet(rs) ==
    IF rs.t = "absent" THEN {} ELSE IF rs.t = "list" THEN Range(rs.v) ELSE {rs.v}

\* C1: when update_webhook_access(status=d) has run alone against a remote
\* policy, its fetch succeeded and so did its setIamPolicy if it made one, the
\* remote policy has 'allUsers' as an invoker member exactly when d is false.
C1_AccessReachesDesired ==
    \A p \in Procs :
        ( /\ Alone(p) /\ ep[p] = "update_webhook_access" /\ Ended(p)
          /\ fetched[p].result = "ok"
          /\ (mutations[p] = 0 \/ resp[p] = Ok200) )
        => (PublicInvoker(policy) <=> ~desired[p])

\* C2: an invocation of update_webhook_access with desired value d that
\* fetches the policy after an invocation with the same d returned 200, the
\* policy not having been written since, returns 200 and requests no
\* setIamPolicy.
C2_SecondCallShortCircuits ==
    \A p \in Procs : repeat[p] => Skipped(p)

\* C2's case: one invocation posted a policy and returned 200, and the other
\* then fetched with the same desired value.
C2_Witness ==
    \E p \in Procs, q \in Procs :
        /\ p # q /\ repeat[p] /\ desired[p] = desired[q]
        /\ mutations[q] = 1 /\ pc[q] = "done" /\ resp[q] = Ok200

\* C3: update_service_perimeter_status_inplace(A, True, S) followed by
\* update_service_perimeter_status_inplace(A, False, S), for A not restricted
\* in S, leaves S restricting the services it restricted at first.
C3_AddThenRemoveIsNoOp ==
    (calls = <<TRUE, FALSE>> /\ A \notin RestrictedSet(S0))
    => (~inplace_raised /\ RestrictedSet(S) = RestrictedSet(S0))

\* C4: when the fetched status has no restrictedServices and the desired
\* value is true, the status the evaluator leaves, which is the body of the
\* PATCH, holds under restrictedServices the list of the api alone.
C4_AbsentBecomesSingletonList ==
    \A p \in Procs :
        ( /\ ep[p] \in PerimeterEndpoints /\ fetched[p].result = "ok"
          /\ fetched[p].value.restrictedServices.t = "absent" /\ desired[p] )
        => /\ service_perimeter_status[p].restrictedServices.t = "list"
           /\ service_perimeter_status[p].restrictedServices.v = <<ApiOf(ep[p])>>

\* C5: when the fetch of the current state answers a non-200 status, the
\* invocation returns that status with the upstream body and requests no
\* mutation.
C5_FetchFailurePassedOn ==
    \A p \in Procs :
        fetched[p].result = "error"
        => (pc[p] = "done" /\ resp[p] = Passed(fetched[p].code) /\ mutations[p] = 0)

\* C6: on each endpoint a request with a token and without project_id ends
\* with 200 and the BLOCKED body, no control-plane call having been made.
C6_NoProjectIdIsBlocked ==
    \A p \in Procs :
        (pc[p] # "idle" /\ request[p].token_ok /\ ~request[p].has_project_id)
        => (pc[p] = "done" /\ resp[p] = Blocked /\ fetches[p] = 0 /\ mutations[p] = 0)

\* C7: whatever optional field the fetched policy or the fetched perimeter
\* status lacks, the evaluator does not end the invocation with an exception.
C7_EvaluatorsNeverRaise ==
    \A p \in Procs :
        (fetched[p].result = "ok" /\ pc[p] = "raised")
        => exception[p] \notin {"KeyError: 'members'",
                                "AttributeError: 'str' object has no attribute 'append'"}

\* C8: when get_service_perimeter_status or get_service_perimeter_data_uri
\* answers with an error-response, update_security_perimeter returns that
\* response, raises nothing and requests no PATCH.
C8_CollaboratorErrorsReturned ==
    \A p \in Procs :
        su_error[p].who \in {"get_service_perimeter_status", "get_service_perimeter_data_uri"}
        => /\ pc[p] = "done" /\ resp[p] = CollaboratorResponse(su_error[p].code)
           /\ mutations[p] = 0

\* C9: once update_webhook_access has fetched the policy and is over, it
\* returned 200 without a setIamPolicy exactly when (not internal_only and
\* allUsers is an invoker member) or (internal_only and allUsers is not), and
\* in every other case it requested exactly one setIamPolicy.
C9_SkipIffMatches ==
    \A p \in Procs :
        (ep[p] = "update_webhook_access" /\ fetched[p].result = "ok" /\ Ended(p))
        => LET public == PublicInvoker(fetched[p].value)
               matches == (~desired[p] /\ public) \/ (desired[p] /\ ~public)
           IN  (Skipped(p) <=> matches) /\ (~matches => mutations[p] = 1)

\* C10: once update_security_perimeter has fetched the status, it returns 200
\* without a PATCH exactly when (desired is false and the api is not in
\* restrictedServices) or (desired is true and the api is in it), a missing
\* restrictedServices holding nothing.
C10_PatchSkippedIffMatches ==
    \A p \in Procs :
        (ep[p] \in PerimeterEndpoints /\ fetched[p].result = "ok")
        => LET present == ApiOf(ep[p]) \in RestrictedSet(fetched[p].value.restrictedServices)
           IN  Skipped(p) <=> ((~desired[p] /\ ~present) \/ (desired[p] /\ present))

\* C10's case: one invocation found restrictedServices missing with desired
\* false and skipped the PATCH, and another patched and got 200.
C10_Witness ==
    \E p \in Procs, q \in Procs :
        /\ ep[p] \in PerimeterEndpoints /\ fetched[p].result = "ok"
        /\ fetched[p].value.restrictedServices.t = "absent" /\ ~desired[p] /\ Skipped(p)
        /\ ep[q] \in PerimeterEndpoints /\ mutations[q] = 1 /\ pc[q] = "done" /\ resp[q] = Ok200

\* The fulfillment invocation of p got its token, its project_id, the agent
\* and the webhook.
Resolved(p) ==
    /\ ep[p] = "update_service_directory_webhook_fulfillment"
    /\ Len(log[p]) >= 2 /\ log[p][2].call = "get_webhooks" /\ log[p][2].code = 200
    /\ exception[p] # "KeyError: 'cxPrebuiltAgentsTelecom'"

\* C11: when the token, project_id, agent resolution and webhook resolution
\* of update_service_directory_webhook_fulfillment succeeded and the
\* invocation is over, it requested exactly one PATCH of the webhook, with
\* the serviceDirectory body when status is true and the genericWebService
\* body otherwise, whatever the remote webhook held.
C11_AlwaysPatchesWebhook ==
    \A p \in Procs :
        (Resolved(p) /\ Ended(p))
        => /\ mutations[p] = 1
           /\ log[p][Len(log[p])].call = "PATCH webhook"
           /\ data[p] = IF desired[p] THEN "serviceDirectory" ELSE "genericWebService"

\* C12: every PATCH of update_security_perimeter carries
\* updateMask=status.restrictedServices, and the perimeter's other fields,
\* whoever changed them since the invocation's fetch, are after the PATCH what
\* they were immediately before it.
C12_PatchTouchesOnlyRestrictedServices ==
    \A p \in Procs : \A i \in 1..Len(log[p]) :
        log[p][i].call = "PATCH servicePerimeter"
        => /\ log[p][i].updateMask = "status.restrictedServices"
           /\ log[p][i].after.resources = log[p][i].before.resources

\* C12's case: a PATCH answered 200 on a perimeter whose other fields another
\* party had changed since the invocation's fetch.
C12_Witness ==
    \E p \in Procs : \E i \in 1..Len(log[p]) :
        /\ log[p][i].call = "PATCH servicePerimeter" /\ log[p][i].code = 200
        /\ fetched[p].result = "ok"
        /\ log[p][i].before.resources # fetched[p].value.resources

\* The invocations of p (cloudfunctions) and q (dialogflow), both with desired
\* true, both fetched a status restricting neither api, and both then
\* patched and returned 200.
Raced(p, q) ==
    /\ ep[p] = "update_security_perimeter_cloudfunctions"
    /\ ep[q] = "update_security_perimeter_dialogflow"
    /\ \A r \in {p, q} :
        /\ desired[r] /\ fetched[r].result = "ok"
        /\ {CLOUDFUNCTIONS_API, DIALOGFLOW_API}
             \cap RestrictedSet(fetched[r].value.restrictedServices) = {}
        /\ mutations[r] = 1 /\ pc[r] = "done" /\ resp[r] = Ok200

\* C13: when the cloudfunctions and the dialogflow invocation, both with
\* desired true, both fetched a status restricting neither api before either
\* patched, and both returned 200, the remote restrictedServices holds one
\* of the two apis and lacks the other: an update is lost.
C13_LostUpdate ==
    \A p \in Procs, q \in Procs :
        Raced(p, q)
        => Cardinality({CLOUDFUNCTIONS_API, DIALOGFLOW_API}
                         \cap RestrictedSet(perimeter.restrictedServices)) = 1

\* C13's case: such an interleaving is reached, and the remote lacks one of
\* the two apis at its end.
C13_Witness ==
    \E p \in Procs, q \in Procs :
        /\ Raced(p, q)
        /\ \E api \in {CLOUDFUNCTIONS_API, DIALOGFLOW_API} :
                api \notin RestrictedSet(perimeter.restrictedServices)

\* C14: once update_webhook_ingress has fetched the function, with the desired
\* setting ALLOW_INTERNAL_ONLY for true and ALLOW_ALL for false: if the fetched
\* ingressSettings equals it no PATCH is requested; otherwise the body of the
\* PATCH is the fetched descriptor with ingressSettings set to it, every other
\* field as fetched, and one PATCH is requested by the end.
C14_IngressPatchKeepsOtherFields ==
    \A p \in Procs :
        (ep[p] = "update_webhook_ingress" /\ fetched[p].result = "ok")
        => LET setting == IF desired[p] THEN "ALLOW_INTERNAL_ONLY" ELSE "ALLOW_ALL"
           IN  IF fetched[p].value.ingressSettings = setting
               THEN mutations[p] = 0 /\ pc[p] = "done"
               ELSE /\ webhook_data[p] = [fetched[p].value EXCEPT !.ingressSettings = setting]
                    /\ mutations[p] = IF Ended(p) THEN 1 ELSE 0
                    /\ Ended(p) => log[p][Len(log[p])].call = "PATCH function"

\* C14's case: a PATCH of a descriptor whose other fields are not the default
\* ones was answered 200, and the remote function is the body sent.
C14_Witness ==
    \E p \in Procs :
        /\ ep[p] = "update_webhook_ingress" /\ fetched[p].result = "ok"
        /\ fetched[p].value.labels = "l2"
        /\ fetched[p].value.ingressSettings = "ALLOW_INTERNAL_AND_GCLB"
        /\ mutations[p] = 1 /\ resp[p] = Ok200 /\ function = webhook_data[p]

\* The endpoints that compare the remote state with the desired one.
DiffingEndpoints ==
    {"update_webhook_access", "update_webhook_ingress"} \cup PerimeterEndpoints

\* The evaluator of p's endpoint finds the state p fetched to differ from the
\* desired one.
Differs(p) ==
    IF ep[p] = "update_webhook_access" THEN ~NoChangeNeeded(desired[p], fetched[p].value)
    ELSE IF ep[p] = "update_webhook_ingress"
    THEN fetched[p].value.ingressSettings # ingress_settings(desired[p])
    ELSE update_service_perimeter_status_inplace(
             ApiOf(ep[p]), desired[p], fetched[p].value.restrictedServices).outcome # "response"

\* C15: on the three diffing endpoints a mutation is requested only after the
\* fetch of the current state succeeded and the evaluator found a difference,
\* and a remote call that fails is the last one of the invocation, which ends
\* returning that failure's status.
C15_FetchEvaluateApply ==
    \A p \in Procs :
        ep[p] \in DiffingEndpoints
        => /\ mutations[p] > 0 => (fetched[p].result = "ok" /\ Differs(p))
           /\ \A i \in 1..Len(log[p]) :
                log[p][i].code # 200
                => /\ i = Len(log[p])
                   /\ pc[p] = "done" /\ resp[p].status = log[p][i].code

\* The requests that change the remote state.
MutationCalls == {"setIamPolicy", "PATCH function", "PATCH servicePerimeter", "PATCH webhook"}

\* C16: in one invocation of any endpoint no request is made twice, and a
\* mutation answered with a non-200 status is the invocation's last request,
\* the invocation ending with that status as its response.
C16_NoRetry ==
    \A p \in Procs :
        /\ \A i \in 1..Len(log[p]), j \in 1..Len(log[p]) :
                log[p][i].call = log[p][j].call => i = j
        /\ mutations[p] <= 1
        /\ \A i \in 1..Len(log[p]) :
                (log[p][i].call \in MutationCalls /\ log[p][i].code # 200)
                => /\ i = Len(log[p])
                   /\ pc[p] = "done" /\ resp[p].status = log[p][i].code

\* C16's case: a mutation was answered 503 and the invocation returned 503.
C16_Witness ==
    \E p \in Procs :
        /\ Len(log[p]) > 0
        /\ log[p][Len(log[p])].call \in MutationCalls /\ log[p][Len(log[p])].code = 503
        /\ pc[p] = "done" /\ resp[p].status = 503

\* No two bindings of the policy have the same role.
OneBindingPerRole(pol) ==
    \A i \in 1..Len(GetBindings(pol)), j \in 1..Len(GetBindings(pol)) :
        GetBindings(pol)[i].role = GetBindings(pol)[j].role => i = j

\* The positions of the invoker bindings of the policy.
InvokerBindings(pol) == {i \in 1..Len(GetBindings(pol)) : GetBindings(pol)[i].role = INVOKER}

\* How many times 'allUsers' occurs among the members of the binding.
AllUsersCount(binding) ==
    Cardinality({j \in 1..Len(GetMembers(binding)) : GetMembers(binding)[j] = ALL_USERS})

\* C17: when update_webhook_access, with internal_only false, fetched a policy
\* with at most one binding per role that needs the mutation, the policy it
\* sends in setIamPolicy has exactly one invoker binding, and 'allUsers'
\* occurs exactly once among that binding's members.
C17_OneInvokerBindingWithAllUsers ==
    \A p \in Procs :
        ( /\ ep[p] = "update_webhook_access" /\ fetched[p].result = "ok" /\ ~desired[p]
          /\ ~NoChangeNeeded(FALSE, fetched[p].value) /\ OneBindingPerRole(fetched[p].value)
          /\ mutations[p] = 1 )
        => /\ Cardinality(InvokerBindings(policy_dict[p])) = 1
           /\ \A i \in InvokerBindings(policy_dict[p]) :
                AllUsersCount(policy_dict[p].bindings[i]) = 1

\* C17's case: a setIamPolicy was sent for a fetched policy whose one binding
\* is of another role, and the remote holds the policy sent.
C17_Witness ==
    \E p \in Procs :
        /\ ep[p] = "update_webhook_access" /\ ~desired[p] /\ mutations[p] = 1
        /\ fetched[p].result = "ok" /\ InvokerBindings(fetched[p].value) = {}
        /\ Len(GetBindings(fetched[p].value)) = 1
        /\ resp[p] = Ok200 /\ policy = policy_dict[p]

\* C18: when update_security_perimeter(api, d) has run alone on a status
\* whose restrictedServices is a list and returned 200, with or without a
\* PATCH, the remote restricts the api exactly when d is true, and of the
\* other services exactly those it restricted before.
C18_PerimeterReachesDesired ==
    \A p \in Procs :
        ( /\ Alone(p) /\ ep[p] \in PerimeterEndpoints /\ fetched[p].result = "ok"
          /\ fetched[p].value.restrictedServices.t = "list"
          /\ pc[p] = "done" /\ resp[p] = Ok200 )
        => LET before == RestrictedSet(fetched[p].value.restrictedServices)
               after == RestrictedSet(perimeter.restrictedServices)
           IN  /\ ApiOf(ep[p]) \in after <=> desired[p]
               /\ after \ {ApiOf(ep[p])} = before \ {ApiOf(ep[p])}

\* C18's case: the api was removed by a PATCH from a list that restricted
\* another service too.
C18_Witness ==
    \E p \in Procs :
        /\ Alone(p) /\ ep[p] \in PerimeterEndpoints /\ fetched[p].result = "ok"
        /\ fetched[p].value.restrictedServices.t = "list"
        /\ {ApiOf(ep[p]), STORAGE_API} \subseteq RestrictedSet(fetched[p].value.restrictedServices)
        /\ ~desired[p] /\ mutations[p] = 1 /\ pc[p] = "done" /\ resp[p] = Ok200

\* The members of the binding other than 'allUsers', in order.
OtherMembers(binding) == SelectSeq(GetMembers(binding), LAMBDA m : m # ALL_USERS)

\* C19: the policy update_webhook_access sends in setIamPolicy has the
\* bindings of the fetched policy in their order and at most one more; a
\* binding of a role other than invoker is sent as fetched, 'allUsers'
\* included; an invoker binding keeps its role and its members other than
\* 'allUsers'; a binding added is an invoker binding of 'allUsers' alone.
C19_OnlyInvokerAllUsersChanges ==
    \A p \in Procs :
        (ep[p] = "update_webhook_access" /\ fetched[p].result = "ok" /\ mutations[p] = 1)
        => LET got == GetBindings(fetched[p].value)
               sent == GetBindings(policy_dict[p])
           IN  /\ Len(got) <= Len(sent) /\ Len(sent) <= Len(got) + 1
               /\ \A i \in 1..Len(got) :
                    IF got[i].role # INVOKER THEN sent[i] = got[i]
                    ELSE /\ sent[i].role = INVOKER
                         /\ OtherMembers(sent[i]) = OtherMembers(got[i])
               /\ \A i \in (Len(got) + 1)..Len(sent) :
                    sent[i].role = INVOKER /\ OtherMembers(sent[i]) = <<>>

\* C19's case: 'allUsers' was removed from an invoker binding of a policy that
\* has 'allUsers' in a binding of another role too, and the remote holds the
\* policy sent.
C19_Witness ==
    \E p \in Procs :
        /\ ep[p] = "update_webhook_access" /\ fetched[p].result = "ok" /\ mutations[p] = 1
        /\ desired[p] /\ resp[p] = Ok200 /\ policy = policy_dict[p]
        /\ \E b \in Range(GetBindings(fetched[p].value)) :
                b.role # INVOKER /\ ALL_USERS \in Range(GetMembers(b))
        /\ \E b \in Range(GetBindings(fetched[p].value)) :
                b.role = INVOKER /\ Range(GetMembers(b)) = Members

\* C20: in update_service_directory_webhook_fulfillment the fulfillment mode
\* is 'service-directory' or 'generic-web-service' for every request body, and
\* no invocation ends with the 500 'Unexpected setting for fulfillment'.
C20_UnexpectedFulfillmentUnreachable ==
    \A p \in Procs :
        ep[p] = "update_service_directory_webhook_fulfillment"
        => /\ Fulfillment(desired[p]) \in {"service-directory", "generic-web-service"}
           /\ WebhookData(Fulfillment(desired[p])) # "unexpected"
           /\ resp[p] # UnexpectedFulfillment

\* C20's case: an invocation with a true status went through the branches on
\* the mode, built its body and ended.
C20_Witness ==
    \E p \in Procs :
        /\ ep[p] = "update_service_directory_webhook_fulfillment"
        /\ desired[p] /\ data[p] = "serviceDirectory" /\ Ended(p)

====
